---- MODULE Spec2Model ----
\* AI photo organizer: the App controller (photos, organizedFolders, isLoading,
\* error, selectedFolder), the FileUpload intake (file picker and drag-and-drop),
\* the organizePhotos client and the object-URL registry of the browser.
\*
\* One action is one browser task: an event handler run to completion, followed
\* by the React commit it causes (re-render, effect cleanup, memoised callbacks).
EXTENDS Integers, Sequences, FiniteSets, Bags, TLC

\* ------------------------------------------------------------------ bounds

\* Longest file list handed to the picker or dropped.
MaxFiles == 2
\* Preview URLs handleFileChange can allocate in one run.
MaxUrls == 2
\* revokeObjectURL calls counted per URL.
MaxRevoke == 3
\* organizePhotos calls that may be pending at once.
MaxCalls == 2
\* handleDownload runs that may be pending at once.
MaxExports == 1

\* ------------------------------------------------------------- option values

\* null
None == <<>>

Some(x) == <<x>>

\* ------------------------------------------------------------------- files

\* The files the user can offer: two images that share a name, a text file, and
\* a third image with a name of its own.
FileIds == 1..4

\* File.type, as its characters.
FileType(f) ==
    CASE f = 1 -> <<"i", "m", "a", "g", "e", "/", "j", "p", "e", "g">>
      [] f = 2 -> <<"i", "m", "a", "g", "e", "/", "p", "n", "g">>
      [] f = 4 -> <<"i", "m", "a", "g", "e", "/", "g", "i", "f">>
      [] OTHER -> <<"t", "e", "x", "t", "/", "p", "l", "a", "i", "n">>

\* File.name
FileName(f) ==
    CASE f = 1 -> "img.jpg"
      [] f = 2 -> "img.jpg"
      [] f = 4 -> "cat.gif"
      [] OTHER -> "notes.txt"

\* 'image/'
ImagePrefix == <<"i", "m", "a", "g", "e", "/">>

\* String.prototype.startsWith
StartsWith(s, p) ==
    /\ Len(s) >= Len(p)
    /\ \A i \in 1..Len(p) : s[i] = p[i]

\* The file lists a picker selection or a drop can carry: distinct files, in
\* any order.
FileLists ==
    {fs \in UNION {[1..n -> FileIds] : n \in 0..MaxFiles} :
        \A i, j \in 1..Len(fs) : fs[i] = fs[j] => i = j}

\* ------------------------------------------------------------------- state

VARIABLES
    photos,            \* App state: Photo[]
    organizedFolders,  \* App state: OrganizedFolder[] | null
    isLoading,         \* App state
    error,             \* App state: string | null
    selectedFolder,    \* App state: OrganizedFolder | null
    mounted,           \* the App is in the tree (no render has thrown)
    dropPhotos,        \* the photos the memoised onDrop of FileUpload closes over
    isZipping,         \* FolderViewModal state
    exports,           \* pending handleDownload runs
    archive,           \* the archive the last step offered for download, if any
    calls,             \* pending organizePhotos calls (a bag: promises are unordered)
    nextUrl,           \* the next preview URL createObjectURL returns
    revoked,           \* per preview URL, the number of revokeObjectURL calls
    lastOp,            \* history: the step taken last
    lastFrom,          \* history: the controller state that step was taken in
    lastFiles,         \* history: the file list of that step, if it was an intake
    lastResponse,      \* history: the response of that step, if the service settled
    lastExport         \* history: the handleDownload run that step ended, if any

vars == <<photos, organizedFolders, isLoading, error, selectedFolder, mounted,
          dropPhotos, isZipping, exports, archive, calls, nextUrl, revoked,
          lastOp, lastFrom, lastFiles, lastResponse, lastExport>>

Urls == 1..MaxUrls

\* The controller states of the design, read off the four state fields.
StateName ==
    IF isLoading THEN "Organizing"
    ELSE IF organizedFolders # None THEN "Organized"
    ELSE IF Len(photos) = 0 THEN "Empty"
    ELSE IF error # None THEN "Failed"
    ELSE "Ready"

\* The history of a step named op: its file list, the response the service
\* settled with (0: none), the handleDownload run it ended, and the archive
\* that run offered for download.
StepWith(op, files, k, job, zip) ==
    /\ lastOp' = op
    /\ lastFrom' = StateName
    /\ lastFiles' = files
    /\ lastResponse' = k
    /\ lastExport' = job
    /\ archive' = zip

\* The history of a step named op over the file list files.
Step(op, files) == StepWith(op, files, 0, None, None)

\* ------------------------------------------------------------ object URLs

\* URL.revokeObjectURL over a photo list: photos.forEach(p => revoke(p.previewUrl)).
RevokeAll(r, ps) ==
    [u \in Urls |->
        r[u] + Cardinality({i \in 1..Len(ps) : ps[i].previewUrl = u})]

\* Faulty variants: an effect without a cleanup, and a cleanup that revokes the
\* photos of the render being committed.
CleanupNoop(outgoing, incoming) == <<>>

CleanupIncoming(outgoing, incoming) == incoming

\* The photo list whose URLs the effect cleanup of a commit revokes: the cleanup
\* closes over the photos of the render that installed it, i.e. the outgoing list.
CleanupTargets(outgoing, incoming) == outgoing

\* The registry after a commit that replaced the photos array: useEffect's
\* cleanup runs because the dependency [photos] changed identity.
EffectCleanup(r, outgoing, incoming) ==
    RevokeAll(r, CleanupTargets(outgoing, incoming))

\* Whether a revocation stays within the counted range.
WithinRevokeBound(r) == \A u \in Urls : r[u] <= MaxRevoke

\* ------------------------------------------------------- service responses

\* A decoded JSON value. props is the object's properties as <<key, value>> pairs.
JUndefined == [kind |-> "undefined", str |-> "", num |-> 0, items |-> <<>>, props |-> <<>>]

JNull == [kind |-> "null", str |-> "", num |-> 0, items |-> <<>>, props |-> <<>>]

JStr(s) == [kind |-> "string", str |-> s, num |-> 0, items |-> <<>>, props |-> <<>>]

JNum(n) == [kind |-> "number", str |-> "", num |-> n, items |-> <<>>, props |-> <<>>]

JArr(xs) == [kind |-> "array", str |-> "", num |-> 0, items |-> xs, props |-> <<>>]

JObj(ps) == [kind |-> "object", str |-> "", num |-> 0, items |-> <<>>, props |-> ps]

\* A folder object as the response schema asks for it.
JFolder(name, desc, indices) ==
    JObj(<< <<"folderName", JStr(name)>>, <<"description", JStr(desc)>>,
            <<"photoIndices", JArr(indices)>> >>)

\* v[key] in JavaScript, for a v that is neither null nor undefined.
Prop(v, key) ==
    IF \E i \in 1..Len(v.props) : v.props[i][1] = key
    THEN v.props[CHOOSE i \in 1..Len(v.props) : v.props[i][1] = key][2]
    ELSE JUndefined

\* Reading a property of null or undefined throws a TypeError.
PropThrows(v) == v.kind \in {"null", "undefined"}

IsArray(v) == v.kind = "array"

IsString(v) == v.kind = "string"

\* What ai.models.generateContent can come back with: the promise rejects, or it
\* resolves with a text that JSON.parse rejects, or with a text that decodes to value.
Rejected == [rejects |-> TRUE, parses |-> FALSE, value |-> JUndefined]

NotJson == [rejects |-> FALSE, parses |-> FALSE, value |-> JUndefined]

Decodes(v) == [rejects |-> FALSE, parses |-> TRUE, value |-> v]

ResponseIds == 1..10

Response(k) ==
    CASE k = 1 -> Decodes(JArr(<<JFolder("A", "a", <<JNum(0), JNum(1)>>),
                                 JFolder("B", "b", <<>>)>>))
      [] k = 2 -> Decodes(JArr(<<JFolder("A", "a", <<JNum(0)>>),
                                 JFolder("B", "b", <<JNum(1)>>)>>))
      [] k = 3 -> Decodes(JArr(<<>>))
      [] k = 4 -> NotJson
      [] k = 5 -> Decodes(JObj(<< <<"folders", JArr(<<>>)>> >>))
      [] k = 6 -> Decodes(JArr(<<JFolder("A", "a", <<JNum(0)>>),
                                 JObj(<< <<"folderName", JNum(7)>>,
                                         <<"photoIndices", JArr(<<JNum(1)>>)>> >>)>>))
      [] k = 7 -> Decodes(JArr(<<JObj(<< <<"folderName", JStr("A")>>,
                                         <<"photoIndices", JStr("0,1")>> >>)>>))
      [] k = 8 -> Decodes(JArr(<<JFolder("A", "a", <<JNum(0)>>), JNull>>))
      [] k = 10 -> Decodes(JArr(<<JFolder("A", "a", <<JNum(1), JNum(0)>>)>>))
      [] OTHER -> Rejected

\* ---------------------------------------------------------- organizePhotos

FailedMessage == "Failed to organize photos. The AI model could not process the request."

UnknownMessage == "An unknown error occurred."

ValidationMessage == "Please upload some photos first."

Throw(msg) == [ok |-> FALSE, message |-> msg, folders |-> JUndefined]

Return(v) == [ok |-> TRUE, message |-> "", folders |-> v]

\* Faulty variant: a validation that looks at the first element only.
FirstInvalid(items) ==
    /\ Len(items) > 0
    /\ \/ PropThrows(items[1])
       \/ ~IsString(Prop(items[1], "folderName"))
       \/ ~IsArray(Prop(items[1], "photoIndices"))

\* result.some(folder => typeof folder.folderName !== 'string'
\*                        || !Array.isArray(folder.photoIndices)),
\* or a TypeError while evaluating it: either way the try block is left.
SomeInvalid(items) ==
    \E i \in 1..Len(items) :
        \/ PropThrows(items[i])
        \/ ~IsString(Prop(items[i], "folderName"))
        \/ ~IsArray(Prop(items[i], "photoIndices"))

\* organizePhotos from the moment generateContent settles: every way out of the
\* try block ends in the catch, which throws one Error with a fixed message.
OrganizeOutcome(resp) ==
    IF resp.rejects \/ ~resp.parses THEN Throw(FailedMessage)
    ELSE IF ~IsArray(resp.value) \/ SomeInvalid(resp.value.items)
         THEN Throw(FailedMessage)
         ELSE Return(resp.value)

\* A pending organizePhotos call: the photos it was given and, per photo, the
\* state of fileToGenerativePart's promise ("reading", "resolved", or "failed":
\* the read ended in error, onloadend threw on the null result and the promise
\* stays pending for ever).
NewCall(ps) == [photos |-> ps, enc |-> [i \in 1..Len(ps) |-> "reading"]]

\* A call one of whose reads failed: Promise.all stays pending for ever, and
\* neither the call's photos nor its other reads are of any further consequence.
HungCall == [photos |-> <<>>, enc |-> <<"failed">>]

\* Promise.all(imageParts) has resolved.
AllEncoded(call) == \A i \in 1..Len(call.enc) : call.enc[i] = "resolved"

\* The pending calls, and their number.
PendingCalls == BagToSet(calls)

NumCalls == BagCardinality(calls)

\* One call starts; one call settles.
WithCall(b, call) == b (+) SetToBag({call})

WithoutCall(b, call) == b (-) SetToBag({call})

\* A sequence without its element at position c.
RemoveAt(s, c) == [i \in 1..(Len(s) - 1) |-> IF i < c THEN s[i] ELSE s[i + 1]]

\* -------------------------------------------------------------- FileUpload

\* {!organizedFolders && ... <FileUpload .../>}: FileUpload is in the tree.
FileUploadMounted(folders) == folders = None

\* The photos the memoised onDrop closes over after a commit to (folders2,
\* loading2, photos2). useCallback(..., [disabled]) keeps the callback of the
\* render in which FileUpload mounted or `disabled` last changed; that callback
\* calls the handleFileChange, hence the handleFilesSelected and the `photos`,
\* of that render. An unmounted FileUpload has no callback.
OnDropPhotos(folders2, loading2, photos2) ==
    IF ~FileUploadMounted(folders2) THEN <<>>
    ELSE IF ~FileUploadMounted(organizedFolders) \/ loading2 # isLoading
         THEN photos2
         ELSE dropPhotos

\* Faulty variant: an intake without the filter.
IsAnyFile(f) == TRUE

\* file.type.startsWith('image/')
IsImage(f) == StartsWith(FileType(f), ImagePrefix)

\* Array.from(files).filter(...).map(file => ({file, previewUrl: createObjectURL(file)}))
PhotoArray(files) ==
    LET accepted == SelectSeq(files, IsImage)
    IN  [i \in 1..Len(accepted) |->
            [file |-> accepted[i], previewUrl |-> nextUrl + i - 1]]

\* --------------------------------------------------------- FolderViewModal

\* The decimal spelling of a small array index, as a property key.
IndexKey(n) ==
    CASE n = 0 -> "0" [] n = 1 -> "1" [] n = 2 -> "2" [] n = 3 -> "3"
      [] n = 4 -> "4" [] n = 5 -> "5" [] n = 6 -> "6" [] n = 7 -> "7"
      [] n = 8 -> "8" [] n = 9 -> "9" [] OTHER -> "?"

\* allPhotos[index]: the positions (from 1) the index names; none is undefined.
\* A string that spells an index names the same element as the number.
Resolved(index, allPhotos) ==
    {n \in 1..Len(allPhotos) :
        \/ index.kind = "number" /\ index.num = n - 1
        \/ index.kind = "string" /\ index.str = IndexKey(n - 1)}

\* folder.photoIndices
PhotoIndices(folder) == Prop(folder, "photoIndices").items

\* const photosInFolder = folder.photoIndices.map(index => allPhotos[index]),
\* when every index resolves.
PhotosInFolder(folder, allPhotos) ==
    [i \in 1..Len(PhotoIndices(folder)) |->
        allPhotos[CHOOSE n \in Resolved(PhotoIndices(folder)[i], allPhotos) : TRUE]]

\* photosInFolder.map(photo => ... photo.previewUrl ...) reads a property of
\* undefined: the render of the modal throws.
ModalRenderThrows(folder, allPhotos) ==
    \E i \in 1..Len(PhotoIndices(folder)) :
        Resolved(PhotoIndices(folder)[i], allPhotos) = {}

\* A pending handleDownload: the folder and the photosInFolder of the render it
\* was clicked in, the state of each fetch, and whether the modal that started
\* it is still mounted.
NewExport(folder, allPhotos) ==
    [folder |-> folder,
     photos |-> PhotosInFolder(folder, allPhotos),
     fetch |-> [i \in 1..Len(PhotoIndices(folder)) |-> "pending"],
     attached |-> TRUE]

Detached(es) == [e \in 1..Len(es) |-> [es[e] EXCEPT !.attached = FALSE]]

\* Faulty variant: a zip.file that keeps the first file added under a name.
ZipEntriesFirstWins(ps) ==
    [name \in {FileName(ps[i].file) : i \in 1..Len(ps)} |->
        LET first == CHOOSE i \in 1..Len(ps) :
                         /\ FileName(ps[i].file) = name
                         /\ \A j \in 1..(i - 1) : FileName(ps[j].file) # name
        IN  ps[first].file]

\* photoData.forEach(data => zip.file(data.name, data.blob)): per name, the
\* file added last.
ZipEntries(ps) ==
    [name \in {FileName(ps[i].file) : i \in 1..Len(ps)} |->
        LET last == CHOOSE i \in 1..Len(ps) :
                        /\ FileName(ps[i].file) = name
                        /\ \A j \in (i + 1)..Len(ps) : FileName(ps[j].file) # name
        IN  ps[last].file]

\* --------------------------------------------------------------------- App

\* The commit after a handler left the App state at (ps, fs, ld, er, sf) and the
\* registry at rv; replaced says that setPhotos was called (with a new array).
\* If the modal's render throws there is no error boundary: React unmounts the
\* App, whose state is gone, and runs the cleanup of the last committed effect.
Commit(ps, replaced, fs, ld, er, sf, rv) ==
    IF sf # None /\ ModalRenderThrows(sf[1], ps)
    THEN /\ mounted' = FALSE
         /\ photos' = <<>>
         /\ organizedFolders' = None
         /\ isLoading' = FALSE
         /\ error' = None
         /\ selectedFolder' = None
         /\ dropPhotos' = <<>>
         /\ isZipping' = FALSE
         /\ exports' = Detached(exports)
         /\ revoked' = EffectCleanup(rv, photos, ps)
         /\ WithinRevokeBound(revoked')
    ELSE /\ mounted' = TRUE
         /\ photos' = ps
         /\ organizedFolders' = fs
         /\ isLoading' = ld
         /\ error' = er
         /\ selectedFolder' = sf
         /\ dropPhotos' = OnDropPhotos(fs, ld, ps)
         /\ isZipping' = IF sf = None THEN FALSE ELSE isZipping
         /\ exports' = IF sf = None THEN Detached(exports) ELSE exports
         /\ revoked' = IF replaced THEN EffectCleanup(rv, photos, ps) ELSE rv
         /\ WithinRevokeBound(revoked')

\* Faulty variant: a handleFilesSelected without setOrganizedFolders(null) and
\* setError(null).
handleFilesSelectedKeepsResult(selectedPhotos, closurePhotos) ==
    /\ Commit(selectedPhotos, TRUE, organizedFolders, isLoading, error,
              selectedFolder, RevokeAll(revoked, closurePhotos))
    /\ UNCHANGED calls

\* handleFilesSelected, run with the `photos` its closure holds.
handleFilesSelected(selectedPhotos, closurePhotos) ==
    /\ Commit(selectedPhotos, TRUE, None, isLoading, None, selectedFolder,
              RevokeAll(revoked, closurePhotos))
    /\ UNCHANGED calls

\* handleFileChange(files) of FileUpload, for a non-null FileList.
handleFileChange(files, closurePhotos) ==
    /\ nextUrl + Len(PhotoArray(files)) <= MaxUrls + 1
    /\ nextUrl' = nextUrl + Len(PhotoArray(files))
    /\ handleFilesSelected(PhotoArray(files), closurePhotos)

\* Faulty variant: a handleOrganizeClick without setError(null).
handleOrganizeClickKeepsError ==
    IF Len(photos) = 0
    THEN /\ Commit(photos, FALSE, organizedFolders, isLoading,
                   Some(ValidationMessage), selectedFolder, revoked)
         /\ UNCHANGED <<calls, nextUrl>>
    ELSE /\ NumCalls < MaxCalls
         /\ Commit(photos, FALSE, None, TRUE, error, selectedFolder, revoked)
         /\ calls' = WithCall(calls, NewCall(photos))
         /\ UNCHANGED nextUrl

\* Faulty variant: a handleOrganizeClick without the photos.length === 0 guard.
handleOrganizeClickUnguarded ==
    /\ NumCalls < MaxCalls
    /\ Commit(photos, FALSE, None, TRUE, None, selectedFolder, revoked)
    /\ calls' = WithCall(calls, NewCall(photos))
    /\ UNCHANGED nextUrl

\* handleOrganizeClick up to its await: the guard, the three setters, and the
\* start of organizePhotos (every FileReader starts reading).
handleOrganizeClick ==
    IF Len(photos) = 0
    THEN /\ Commit(photos, FALSE, organizedFolders, isLoading,
                   Some(ValidationMessage), selectedFolder, revoked)
         /\ UNCHANGED <<calls, nextUrl>>
    ELSE /\ NumCalls < MaxCalls
         /\ Commit(photos, FALSE, None, TRUE, None, selectedFolder, revoked)
         /\ calls' = WithCall(calls, NewCall(photos))
         /\ UNCHANGED nextUrl

\* err.message || "An unknown error occurred."
MessageOrDefault(m) == IF m = "" THEN UnknownMessage ELSE m

\* Faulty variant: the catch without the finally's setIsLoading(false).
OrganizeSettledNoFinally(c, o) ==
    /\ IF ~mounted
       THEN UNCHANGED <<photos, organizedFolders, isLoading, error, selectedFolder,
                        mounted, dropPhotos, isZipping, exports, revoked>>
       ELSE IF o.ok
       THEN Commit(photos, FALSE, Some(o.folders), FALSE, error, selectedFolder, revoked)
       ELSE Commit(photos, FALSE, organizedFolders, isLoading,
                   Some(MessageOrDefault(o.message)), selectedFolder, revoked)
    /\ calls' = WithoutCall(calls, c)
    /\ UNCHANGED nextUrl

\* handleOrganizeClick after its await, for the pending call c settling with
\* outcome o: try/catch/finally. The setters of an unmounted App do nothing.
OrganizeSettled(c, o) ==
    /\ IF ~mounted
       THEN UNCHANGED <<photos, organizedFolders, isLoading, error, selectedFolder,
                        mounted, dropPhotos, isZipping, exports, revoked>>
       ELSE IF o.ok
       THEN Commit(photos, FALSE, Some(o.folders), FALSE, error, selectedFolder, revoked)
       ELSE Commit(photos, FALSE, organizedFolders, FALSE,
                   Some(MessageOrDefault(o.message)), selectedFolder, revoked)
    /\ calls' = WithoutCall(calls, c)
    /\ UNCHANGED nextUrl

\* Faulty variant: a handleReset without setOrganizedFolders(null).
handleResetKeepsResult ==
    /\ Commit(<<>>, TRUE, organizedFolders, FALSE, None, selectedFolder,
              RevokeAll(revoked, photos))
    /\ UNCHANGED <<calls, nextUrl>>

\* Faulty variant: a handleReset without setPhotos([]).
handleResetKeepsPhotos ==
    /\ Commit(photos, FALSE, None, FALSE, None, selectedFolder,
              RevokeAll(revoked, photos))
    /\ UNCHANGED <<calls, nextUrl>>

\* handleReset.
handleReset ==
    /\ Commit(<<>>, TRUE, None, FALSE, None, selectedFolder,
              RevokeAll(revoked, photos))
    /\ UNCHANGED <<calls, nextUrl>>

\* ------------------------------------------------------- promise settlement

\* reader.onloadend for photo i of call c: on success the promise resolves with
\* the base64 part; on a failed read reader.result is null, .split throws inside
\* the event handler, and resolve is never called. Promise.all can then never
\* resolve, whatever the other reads do: the call hangs.
FileReadEnd(c, i, ok) ==
    /\ c.enc[i] = "reading"
    /\ calls' = WithCall(WithoutCall(calls, c),
                          IF ok THEN [c EXCEPT !.enc[i] = "resolved"]
                          ELSE HungCall)
    /\ Step(IF ok THEN "readOk" ELSE "readFailed", <<>>)
    /\ UNCHANGED <<photos, organizedFolders, isLoading, error, selectedFolder,
                   mounted, dropPhotos, isZipping, exports, nextUrl,
                   revoked>>

\* generateContent settles with response k once Promise.all has resolved; the
\* rest of organizePhotos and of handleOrganizeClick run in the same task.
ServiceSettles(c, k) ==
    /\ AllEncoded(c)
    /\ OrganizeSettled(c, OrganizeOutcome(Response(k)))
    /\ StepWith(IF OrganizeOutcome(Response(k)).ok THEN "organized" ELSE "failed",
                <<>>, k, None, None)

\* ----------------------------------------------------- the rendered controls

\* <input type="file" disabled={disabled} onChange=...>: a selection in the picker.
\* The inline onChange is the current render's handleFileChange.
PickFiles(files) ==
    /\ mounted
    /\ FileUploadMounted(organizedFolders)
    /\ ~isLoading
    /\ handleFileChange(files, photos)
    /\ Step("select", files)

\* Faulty variant: an onDrop that does not look at `disabled`.
DropAcceptedWhileDisabled(files) == Len(files) > 0

\* if (!disabled && e.dataTransfer.files && e.dataTransfer.files.length > 0):
\* `disabled` is a dependency of the memoised onDrop, so it is the current one.

DropAccepted(files) == ~isLoading /\ Len(files) > 0

\* onDrop: the memoised callback, with the handlers it captured.
DropFiles(files) ==
    /\ mounted
    /\ FileUploadMounted(organizedFolders)
    /\ DropAccepted(files)
    /\ handleFileChange(files, dropPhotos)
    /\ Step("drop", files)

\* Faulty variant: the button without disabled={isLoading}.
OrganizeButtonEnabledAlways == organizedFolders = None /\ Len(photos) > 0

\* The "Organize Photos" button: rendered when no result is shown and photos
\* are present, disabled={isLoading}.

OrganizeButtonEnabled == organizedFolders = None /\ Len(photos) > 0 /\ ~isLoading

ClickOrganize ==
    /\ mounted
    /\ OrganizeButtonEnabled
    /\ handleOrganizeClick
    /\ Step("organize", <<>>)

\* The "Reset" button (beside Organize, disabled={isLoading}) and the
\* "Start Over" button (shown with the result, never disabled).
ResetButtonEnabled ==
    \/ organizedFolders = None /\ Len(photos) > 0 /\ ~isLoading
    \/ organizedFolders # None

ClickReset ==
    /\ mounted
    /\ ResetButtonEnabled
    /\ handleReset
    /\ Step("reset", <<>>)

\* organizedFolders.map((folder, index) => <button key={index} ...>): the tiles.
FolderTiles ==
    IF organizedFolders = None THEN {} ELSE 1..Len(organizedFolders[1].items)

\* A folder tile: onClick={() => setSelectedFolder(folder)}.
SelectFolder(j) ==
    /\ mounted
    /\ organizedFolders # None
    /\ Commit(photos, FALSE, organizedFolders, isLoading, error,
              Some(organizedFolders[1].items[j]), revoked)
    /\ Step("selectFolder", <<>>)
    /\ UNCHANGED <<calls, nextUrl>>

\* The modal's backdrop or close button: onClose={() => setSelectedFolder(null)}.
CloseModal ==
    /\ mounted
    /\ selectedFolder # None
    /\ Commit(photos, FALSE, organizedFolders, isLoading, error, None, revoked)
    /\ Step("closeModal", <<>>)
    /\ UNCHANGED <<calls, nextUrl>>

\* "Download Folder" (disabled={isZipping}): handleDownload up to its await;
\* every fetch is started.
ClickDownload ==
    /\ mounted
    /\ selectedFolder # None
    /\ ~isZipping
    /\ Len(exports) < MaxExports
    /\ isZipping' = TRUE
    /\ exports' = Append(exports, NewExport(selectedFolder[1], photos))
    /\ Step("download", <<>>)
    /\ UNCHANGED <<photos, organizedFolders, isLoading, error, selectedFolder,
                   mounted, dropPhotos, calls, nextUrl, revoked>>

\* handleDownload's finally: setIsZipping(false) on the modal that ran it.
ZippingAfter(e) == IF exports[e].attached THEN FALSE ELSE isZipping

\* fetch(photo.previewUrl) of photo i settles. A rejection, or a response that
\* is not ok, rejects Promise.all: the catch logs it and nothing is downloaded.
FetchSettles(e, i, ok) ==
    /\ exports[e].fetch[i] = "pending"
    /\ IF ok
       THEN /\ exports' = [exports EXCEPT ![e].fetch[i] = "ok"]
            /\ UNCHANGED isZipping
       ELSE /\ exports' = RemoveAt(exports, e)
            /\ isZipping' = ZippingAfter(e)
    /\ IF ok THEN Step("fetchOk", <<>>)
             ELSE StepWith("exportFailed", <<>>, 0, Some(exports[e]), None)
    /\ UNCHANGED <<photos, organizedFolders, isLoading, error, selectedFolder,
                   mounted, dropPhotos, calls, nextUrl, revoked>>

\* Faulty variant: a Promise.all that resolves with the first fetch that does.
SomeFetched(job) == \E i \in 1..Len(job.fetch) : job.fetch[i] = "ok"

\* await Promise.all(photoPromises) has resolved: every fetch did.
AllFetched(job) == \A i \in 1..Len(job.fetch) : job.fetch[i] = "ok"

\* Every fetch resolved: the zip is filled and generateAsync settles. On success
\* the archive is offered: it gets an object URL, the link is clicked and the
\* URL is revoked, all before the handler returns, so the registry of preview
\* URLs is as it was.
ExportCompletes(e, ok) ==
    /\ AllFetched(exports[e])
    /\ exports' = RemoveAt(exports, e)
    /\ isZipping' = ZippingAfter(e)
    /\ StepWith(IF ok THEN "exported" ELSE "exportFailed", <<>>, 0,
                Some(exports[e]),
                IF ok THEN Some(ZipEntries(exports[e].photos)) ELSE None)
    /\ UNCHANGED <<photos, organizedFolders, isLoading, error, selectedFolder,
                   mounted, dropPhotos, calls, nextUrl, revoked>>

\* ------------------------------------------------- the two intake sources

\* What handleFileChange(files) leaves behind when the handleFilesSelected it
\* reaches closes over closurePhotos: the new photos, the cleared result and
\* error, and the object URLs revokeObjectURL was called on (by the handler and
\* by the effect cleanup of the commit).
IntakeOutcome(files, closurePhotos) ==
    [photos |-> PhotoArray(files),
     result |-> None,
     error |-> None,
     released |->
        {u \in Urls :
            EffectCleanup(RevokeAll(revoked, closurePhotos), photos,
                          PhotoArray(files))[u] > revoked[u]}]

\* The input's onChange: handleFileChange of the current render.
PickOutcome(files) == IntakeOutcome(files, photos)

\* onDrop: the memoised callback; a drop it does not accept changes nothing.
DropOutcome(files) ==
    IF DropAccepted(files)
    THEN IntakeOutcome(files, dropPhotos)
    ELSE [photos |-> photos, result |-> organizedFolders, error |-> error,
          released |-> {}]

\* -------------------------------------------------------------------- specs

Init ==
    /\ photos = <<>>
    /\ organizedFolders = None
    /\ isLoading = FALSE
    /\ error = None
    /\ selectedFolder = None
    /\ mounted = TRUE
    /\ dropPhotos = <<>>
    /\ isZipping = FALSE
    /\ exports = <<>>
    /\ archive = None
    /\ calls = EmptyBag
    /\ nextUrl = 1
    /\ revoked = [u \in Urls |-> 0]
    /\ lastOp = "init"
    /\ lastFrom = "Empty"
    /\ lastFiles = <<>>
    /\ lastResponse = 0
    /\ lastExport = None

\* The App as rendered: every event comes through a control that is in the tree
\* and enabled.
Next ==
    \/ \E files \in FileLists : PickFiles(files)
    \/ \E files \in FileLists : DropFiles(files)
    \/ ClickOrganize
    \/ ClickReset
    \/ \E j \in FolderTiles : SelectFolder(j)
    \/ CloseModal
    \/ ClickDownload
    \/ \E e \in 1..Len(exports) :
          \E i \in 1..Len(exports[e].fetch), ok \in BOOLEAN : FetchSettles(e, i, ok)
    \/ \E e \in 1..Len(exports), ok \in BOOLEAN : ExportCompletes(e, ok)
    \/ \E c \in PendingCalls :
          \E i \in 1..Len(c.enc), ok \in BOOLEAN : FileReadEnd(c, i, ok)
    \/ \E c \in PendingCalls, k \in ResponseIds : ServiceSettles(c, k)

Spec == Init /\ [][Next]_vars

\* Some pending FileReader read ends; the pending service call settles.
ReadEnds ==
    \E c \in PendingCalls :
        \E i \in 1..Len(c.enc), ok \in BOOLEAN : FileReadEnd(c, i, ok)

CallSettles == \E c \in PendingCalls, k \in ResponseIds : ServiceSettles(c, k)

\* The rendered App in a browser whose reads and whose service call all finish:
\* a read that can end does end, a service call that can settle does settle.
FairSpec == Spec /\ WF_vars(ReadEnds) /\ WF_vars(CallSettles)

\* The controller's operations called directly, whatever the controls show: the
\* contract of handleFilesSelected (through handleFileChange), handleOrganizeClick
\* and handleReset as functions of the App state.
CallSelectPhotos(files) ==
    /\ handleFileChange(files, photos)
    /\ Step("select", files)

CallOrganize ==
    /\ handleOrganizeClick
    /\ Step("organize", <<>>)

CallReset ==
    /\ handleReset
    /\ Step("reset", <<>>)

NextHandlers ==
    \/ \E files \in FileLists : CallSelectPhotos(files)
    \/ CallOrganize
    \/ CallReset
    \/ \E c \in PendingCalls :
          \E i \in 1..Len(c.enc), ok \in BOOLEAN : FileReadEnd(c, i, ok)
    \/ \E c \in PendingCalls, k \in ResponseIds : ServiceSettles(c, k)

SpecHandlers == Init /\ [][NextHandlers]_vars

\* ------------------------------------------------------------------ claims

\* The object URLs createObjectURL has handed out.
Allocated == 1..(nextUrl - 1)

\* The object URLs of the current photo set.
ActiveUrls == {photos[i].previewUrl : i \in 1..Len(photos)}

\* C1: at most one organizePhotos call is pending at any time; a click on
\* Organize while isLoading starts no second call.
C1_SingleOrganizeInFlight == NumCalls <= 1

C1_Witness == NumCalls = 1 /\ isLoading /\ lastOp = "readOk"

\* C2: URL.revokeObjectURL is applied to every object URL at most once.
C2_ReleasedAtMostOnce == \A u \in Urls : revoked[u] <= 1

\* C3: every photo of the current set has an object URL that was allocated and
\* has not been revoked.
C3_ActivePhotosLive ==
    \A u \in ActiveUrls : u \in Allocated /\ revoked[u] = 0

C3_Witness ==
    /\ Len(photos) > 0
    /\ lastOp \in {"select", "drop"}
    /\ lastFrom \in {"Ready", "Failed"}
    /\ \E u \in Allocated : revoked[u] > 0

\* C4: no object URL that was allocated and is not of the current photo set is
\* left unrevoked (no leak after a replacement or a reset).
C4_NoLeak ==
    \A u \in Allocated : u \notin ActiveUrls => revoked[u] >= 1

C4_Witness ==
    /\ lastOp = "drop"
    /\ lastFrom = "Ready"
    /\ Len(photos) > 0
    /\ Allocated \ ActiveUrls # {}

\* C5: a failed encoding of one photo aborts the organize call: the controller
\* is Failed, with the error message set, as soon as the read has failed.
C5_EncodingFailureAborts ==
    lastOp = "readFailed" =>
        /\ ~isLoading
        /\ error # None
        /\ organizedFolders = None
        /\ NumCalls = 0

\* C6: an organize request on an empty photo set only sets the validation
\* message: no call starts, isLoading, the photos and the result are unchanged.
C6_EmptyOrganizeIsNoOp ==
    [][(lastOp' = "organize" /\ Len(photos) = 0) =>
          /\ calls' = calls
          /\ isLoading' = isLoading
          /\ photos' = photos
          /\ organizedFolders' = organizedFolders
          /\ error' = Some(ValidationMessage)]_vars

C6_Witness ==
    /\ lastOp = "organize"
    /\ lastFrom = "Empty"
    /\ error = Some(ValidationMessage)
    /\ NumCalls = 0

\* C7: when the organize call fails the controller is Failed: the photos are
\* those the call was given, the error is set, no result is present and
\* isLoading is false.
C7_FailureLeavesFailed ==
    [][(lastOp' = "failed" /\ NumCalls = 1 /\ calls' = EmptyBag) =>
          /\ \A c \in PendingCalls : photos' = c.photos
          /\ Len(photos') > 0
          /\ error' # None
          /\ organizedFolders' = None
          /\ isLoading' = FALSE]_vars

C7_Witness ==
    /\ lastOp = "failed"
    /\ error = Some(FailedMessage)
    /\ Len(photos) > 0
    /\ ~isLoading

\* C8: a selection made in Empty, Ready, Organized or Failed replaces the photos
\* by the selected images, each with a fresh object URL, clears the result and
\* the error, and leaves the controller Ready, or Empty if no image was selected.
C8_SelectReplaces ==
    (lastOp = "select" /\ lastFrom # "Organizing") =>
        /\ Len(photos) = Len(SelectSeq(lastFiles, IsImage))
        /\ \A i \in 1..Len(photos) :
              /\ photos[i].file = SelectSeq(lastFiles, IsImage)[i]
              /\ photos[i].previewUrl = nextUrl - Len(photos) + i - 1
        /\ organizedFolders = None
        /\ error = None
        /\ StateName = IF Len(photos) = 0 THEN "Empty" ELSE "Ready"

C8_Witness ==
    /\ lastOp = "select"
    /\ lastFrom = "Organized"
    /\ Len(photos) > 0

\* C9: reset leaves no photos, no result, no error and isLoading false, with
\* every object URL of the photos it cleared revoked; a reset that follows a
\* reset changes nothing.
C9_ResetToEmpty ==
    [][lastOp' = "reset" =>
          /\ photos' = <<>>
          /\ organizedFolders' = None
          /\ error' = None
          /\ isLoading' = FALSE
          /\ \A i \in 1..Len(photos) : revoked'[photos[i].previewUrl] >= 1
          /\ lastOp = "reset" =>
                UNCHANGED <<photos, organizedFolders, error, isLoading,
                            revoked, nextUrl, calls>>]_vars

C9_Witness ==
    /\ lastOp = "reset"
    /\ lastFrom = "Empty"
    /\ \E u \in Allocated : revoked[u] > 0

\* C10: while isLoading no selection, drop or reset is taken: the photos do not
\* change, and the result and the error change only when the call settles.
C10_OrganizingIsExclusive ==
    [][isLoading =>
          /\ photos' = photos
          /\ lastOp' \notin {"select", "drop", "reset"}
          /\ lastOp' \notin {"organized", "failed"} =>
                (organizedFolders' = organizedFolders /\ error' = error)]_vars

C10_Witness ==
    /\ isLoading
    /\ lastFrom = "Organizing"
    /\ lastOp = "readOk"
    /\ Len(photos) > 0

\* C11: a folder with a photo index outside the photo list can be opened, and
\* its export then fails with an error: selecting a folder tile never takes the
\* App down, the modal is open on the selected folder afterwards.
C11_OutOfRangeFailsExport ==
    lastOp = "selectFolder" => (mounted /\ selectedFolder # None)

C13_OneEntryPerName ==
    lastOp = "exported" =>
        LET members == lastExport[1].photos
            names == {FileName(members[i].file) : i \in 1..Len(members)}
            lastOf(name) ==
                CHOOSE i \in 1..Len(members) :
                    /\ FileName(members[i].file) = name
                    /\ \A j \in 1..Len(members) :
                          FileName(members[j].file) = name => j <= i
        IN  /\ Len(members) = Len(PhotoIndices(lastExport[1].folder))
            /\ archive # None
            /\ DOMAIN archive[1] = names
            /\ \A name \in names : archive[1][name] = members[lastOf(name)].file

\* Photos 0 and 1 share a name and the folder lists them as [1, 0]: the one
\* entry of the archive holds photo 0.
C13_Witness ==
    /\ lastOp = "exported"
    /\ PhotoIndices(lastExport[1].folder) = <<JNum(1), JNum(0)>>
    /\ lastExport[1].photos[1].file = 2
    /\ lastExport[1].photos[2].file = 1
    /\ DOMAIN archive[1] = {"img.jpg"}
    /\ archive[1]["img.jpg"] = 1

\* C14: the photos an intake (picker or drop) produces are exactly the entries
\* of the file list whose type begins with image/, in the order they have in
\* the list; the other entries are left out and no error is raised.
C14_IntakeKeepsImagesInOrder ==
    lastOp \in {"select", "drop"} =>
        /\ \E pos \in [1..Len(photos) -> 1..Len(lastFiles)] :
              /\ \A i, j \in 1..Len(photos) : i < j => pos[i] < pos[j]
              /\ \A i \in 1..Len(photos) : photos[i].file = lastFiles[pos[i]]
              /\ \A n \in 1..Len(lastFiles) :
                    (\E i \in 1..Len(photos) : pos[i] = n)
                        <=> /\ Len(FileType(lastFiles[n])) >= 6
                            /\ SubSeq(FileType(lastFiles[n]), 1, 6)
                                   = <<"i", "m", "a", "g", "e", "/">>
        /\ error = None
        /\ mounted

\* A text file and an image are dropped: the image alone is taken.
C14_Witness ==
    /\ lastOp = "drop"
    /\ lastFiles = <<3, 2>>
    /\ Len(photos) = 1
    /\ photos[1].file = 2

\* C15: organizePhotos hands folders to the controller exactly when the service
\* answered with text that decodes to an array whose every element is an object
\* with a string folderName and an array photoIndices, and then it hands over
\* that array; for every other answer the call fails as a whole and the
\* controller gets no folder, only the error.
C15_OnlyValidPayloadReturns ==
    lastResponse # 0 =>
        LET r == Response(lastResponse)
            has(v, key, kind) ==
                \E n \in 1..Len(v.props) :
                    v.props[n][1] = key /\ v.props[n][2].kind = kind
            valid ==
                /\ ~r.rejects
                /\ r.parses
                /\ r.value.kind = "array"
                /\ \A n \in 1..Len(r.value.items) :
                      /\ r.value.items[n].kind = "object"
                      /\ has(r.value.items[n], "folderName", "string")
                      /\ has(r.value.items[n], "photoIndices", "array")
        IN  IF valid
            THEN /\ lastOp = "organized"
                 /\ mounted => organizedFolders = Some(r.value)
            ELSE /\ lastOp = "failed"
                 /\ organizedFolders = None
                 /\ mounted => error = Some(FailedMessage)

\* The service answered with one well-formed folder and one whose folderName is
\* a number: the call failed, the well-formed folder is not shown.
C15_Witness ==
    /\ lastResponse = 6
    /\ lastOp = "failed"
    /\ mounted
    /\ organizedFolders = None
    /\ error = Some(FailedMessage)

\* C16: when every photo read and the service call finish, with success or
\* with failure, an organize request that was accepted completes: isLoading
\* does not stay true for ever.
C16_OrganizeCompletes == isLoading ~> ~isLoading

\* C17: wherever FileUpload takes files, dropping a list of files and selecting
\* the same list in the picker leave the same photos, result and error, and
\* release the same object URLs. Stated for the lists of at least one file.
C17_SourcesEquivalent ==
    (mounted /\ FileUploadMounted(organizedFolders) /\ ~isLoading) =>
        \A files \in FileLists :
            Len(files) > 0 => DropOutcome(files) = PickOutcome(files)

\* C18: a result in the controller is the result for the current photos. A
\* step that leaves a result either is the completion of the organizePhotos
\* call that was given exactly the photos now current (and at least one), or
\* finds that result already there and changes neither it nor the photos.
C18_ResultIsOfCurrentPhotos ==
    [][organizedFolders' # None =>
          IF lastOp' = "organized"
          THEN \E c \in PendingCalls :
                  /\ calls' = WithoutCall(calls, c)
                  /\ photos' = c.photos
                  /\ Len(c.photos) > 0
          ELSE /\ organizedFolders' = organizedFolders
               /\ photos' = photos]_vars

\* A result for two photos is on screen.
C18_Witness ==
    /\ lastOp = "organized"
    /\ lastResponse = 2
    /\ organizedFolders # None
    /\ Len(photos) = 2
    /\ NumCalls = 0

\* C19: a folder that is selected (the modal is open on it) is one of the
\* folders of the current result; in particular no reset and no intake leaves
\* the modal open once the result and the photos it indexes are gone.
C19_SelectedFolderIsOfResult ==
    selectedFolder # None =>
        /\ organizedFolders # None
        /\ \E j \in 1..Len(organizedFolders[1].items) :
              organizedFolders[1].items[j] = selectedFolder[1]

\* C20: of isLoading, a result and an error, no two hold together: a result
\* comes with no error and not while organizing, and while organizing there is
\* neither a result nor an error.
C20_OutcomesExclusive ==
    /\ ~(isLoading /\ organizedFolders # None)
    /\ ~(isLoading /\ error # None)
    /\ ~(organizedFolders # None /\ error # None)

\* Organize is clicked again after a failure: organizing, the error is gone.
C20_Witness ==
    /\ lastOp = "organize"
    /\ lastFrom = "Failed"
    /\ isLoading
    /\ error = None
    /\ organizedFolders = None

====
